---- MODULE Spec2Model ----
(***************************************************************************)
(* Model of the data-extraction Lambda of data-pipeline-cdk:               *)
(*   lambdas/data_extractor/handler.py     lambda_handler                   *)
(*   lambdas/data_extractor/s3_writer.py   S3Writer                         *)
(*   lambdas/data_extractor/utils.py       get_partition_path               *)
(*   lambdas/data_extractor/data_processor.py  DataProcessor                *)
(*   lambdas/data_extractor/api_client.py  APIClient                        *)
(*   lambdas/layers/common/python/common_utils.py  RetryHandler             *)
(* Several invocations of lambda_handler run against one bucket and one     *)
(* wall clock; the scheduler may overlap them and the host may terminate    *)
(* an invocation between any two of its steps.                              *)
(***************************************************************************)
EXTENDS Integers, Sequences, FiniteSets, TLC

VARIABLES env, clock, store, pc, loc, calls, puts, response, proc, pager,
          client, writer, retry

vars == <<env, clock, store, pc, loc, calls, puts, response, proc, pager,
          client, writer, retry>>

\* the state of lambda_handler and of the bucket
handler == <<env, clock, store, pc, loc, calls, puts, response>>

\* the state of calls made on their own of DataProcessor (proc), of
\* APIClient.fetch_paginated_data (pager) and fetch_data (client), of
\* S3Writer._to_csv_simple (writer) and of RetryHandler.with_retry (retry)
lib == <<proc, pager, client, writer, retry>>

(***************************************************************************)
(* Bounds of the model.                                                    *)
(***************************************************************************)
\* last clock reading, in ticks
MaxClock == 4
\* clock ticks per second: datetime.now has sub-second resolution
TicksPerSecond == 2
\* seconds per day, scaled down
SecondsPerDay == 2
\* longest record list the API returns
MaxRecords == 1

\* the invocations, by aws_request_id: a scheduled run and a second run that
\* the trigger may start while the first is under way
Invocations == {"req-1", "req-2"}

(***************************************************************************)
(* Environment, events, API results.                                       *)
(***************************************************************************)
Unset == "<unset>"

\* formats the writer knows, and one it does not
SupportedFormats == {"parquet", "json", "csv"}

FormatValues == SupportedFormats \cup {"xml"}

DefaultEndpoint == "https://jsonplaceholder.typicode.com/users"

ConfiguredEndpoint == "https://api.example.com/data"

DefaultFormat == "parquet"

\* os.environ of the function: each variable is set or missing
Environments ==
    [DATA_BUCKET_NAME : {Unset, "bucket"},
     API_ENDPOINT     : {Unset, ConfiguredEndpoint},
     OUTPUT_FORMAT    : {Unset} \cup FormatValues]

\* the event payload: a mapping, or something without .get
Events == {"dict", "none"}

\* raw records as the processor distinguishes them, by type and number of
\* fields: the API returns empty mappings and mappings with fields
RawRecords ==
    {[type |-> "dict", size |-> 0],
     [type |-> "dict", size |-> 1]}

RECURSIVE SeqsUpTo(_, _)
SeqsUpTo(S, n) ==
    IF n = 0 THEN {<<>>}
    ELSE LET shorter == SeqsUpTo(S, n - 1)
         IN  shorter \cup {Append(s, x) : s \in {t \in shorter : Len(t) = n - 1}, x \in S}

\* what fetch_data can return: a list of records, or the value under a
\* wrapper key when that value is not a list (null, a number)
FetchResults ==
    {[type |-> "list", items |-> s] : s \in SeqsUpTo(RawRecords, MaxRecords)}
    \cup {[type |-> "null", items |-> <<>>], [type |-> "int", items |-> <<>>]}

\* no call of a library function under way
NoCall == [phase |-> "none"]

\* raw_data before fetch_data has returned
NotFetched == [type |-> "unset", items |-> <<>>]

\* exception classes a stage can raise into the handler
FetchFaults == {"RequestException", "ValueError", "KeyError"}

PutFaults == {"ClientError", "KeyError"}

(***************************************************************************)
(* Pure helpers of the handler, the processor and the writer.              *)
(***************************************************************************)
\* mutant: the lookup falls back to a default and never raises
MutMissing(e, name) == FALSE

\* os.environ[name] raises KeyError when the variable is missing
Missing(e, name) == e[name] = Unset

\* mutant: the default is dropped
MutEnvGet(e, name, default) == e[name]

\* os.environ.get(name, default)
EnvGet(e, name, default) == IF e[name] = Unset THEN default ELSE e[name]

\* mutant: only the empty list counts as no data (`if raw_data == []`)
MutTruthy(r) == ~(r.type = "list" /\ Len(r.items) = 0)

\* Python truthiness of what fetch_data returned (`if not raw_data`)
Truthy(r) ==
    CASE r.type = "list" -> Len(r.items) > 0
      [] r.type = "null" -> FALSE
      [] OTHER           -> TRUE

\* len(raw_data) is defined for sequences only
HasLen(r) == r.type = "list"

\* DataProcessor._process_record: None for a falsy record, a fault for an
\* element without .get, else the standardized record
ProcessRecord(rec) ==
    IF rec.size = 0 THEN [outcome |-> "none", source |-> rec]
    ELSE IF rec.type # "dict" THEN [outcome |-> "raise", source |-> rec]
    ELSE [outcome |-> "record", source |-> rec]

\* DataProcessor.process: keeps the records that processed to a truthy value,
\* in input order; per-record faults are caught and skipped
RECURSIVE Process(_)
Process(raw) ==
    IF raw = <<>> THEN <<>>
    ELSE LET r == ProcessRecord(Head(raw))
         IN  IF r.outcome = "record" THEN <<r>> \o Process(Tail(raw))
             ELSE Process(Tail(raw))

\* DataProcessor.add_metadata as called by the handler
AddMetadataOf(data, source, request_id) ==
    [source |-> source, request_id |-> request_id, record_count |-> Len(data),
     schema_version |-> "1.0.0"]

\* datetime.now(UTC) truncated by strftime("%Y%m%d_%H%M%S"): whole seconds
Timestamp(now) == now \div TicksPerSecond

\* get_partition_path: year/month/day of now, i.e. the day number
PartitionPath(now) == (now \div TicksPerSecond) \div SecondsPerDay

NoKey == [prefix |-> -1, ts |-> -1, ext |-> "", suffix |-> ""]

\* f"{prefix}/data_{timestamp}.{ext}"
DataKey(prefix, timestamp, ext) ==
    [prefix |-> prefix, ts |-> timestamp, ext |-> ext, suffix |-> ""]

\* f"{data_key}.metadata.json"
MetadataKey(data_key) == [data_key EXCEPT !.suffix = ".metadata.json"]

\* mutant: every format that is not csv takes the json branch
MutFormatBranch(format) ==
    IF format = "csv"
    THEN [supported |-> TRUE, ext |-> "csv", content_type |-> "text/csv"]
    ELSE [supported |-> TRUE, ext |-> "json", content_type |-> "application/json"]

\* the if/elif/else of write_data on the format: extension and content
\* type of the object, or no support at all
FormatBranch(format) ==
    IF format \in {"parquet", "json"}
    THEN [supported |-> TRUE, ext |-> "json", content_type |-> "application/json"]
    ELSE IF format = "csv"
    THEN [supported |-> TRUE, ext |-> "csv", content_type |-> "text/csv"]
    ELSE [supported |-> FALSE, ext |-> "", content_type |-> ""]

\* the "format" entry of the object's S3 metadata
FormatTag(format) == IF format = "parquet" THEN "json" ELSE format

\* what a content type says about the bytes
EncodingOfContentType(ct) == IF ct = "application/json" THEN "json" ELSE "csv"

(***************************************************************************)
(* Results of lambda_handler.                                              *)
(***************************************************************************)
NoResponse ==
    [statusCode |-> 0, message |-> "", error |-> "", format |-> "",
     s3_location |-> NoKey, records_processed |-> -1]

\* mutant: the 200 result reports the key of the sidecar
MutSuccessResponse(n, key, format) ==
    [statusCode |-> 200, message |-> "Data extraction completed successfully",
     error |-> "", format |-> format, s3_location |-> MetadataKey(key),
     records_processed |-> n]

\* the 200 result
SuccessResponse(n, key, format) ==
    [statusCode |-> 200, message |-> "Data extraction completed successfully",
     error |-> "", format |-> format, s3_location |-> key, records_processed |-> n]

\* the 204 result
NoDataResponse ==
    [NoResponse EXCEPT !.statusCode = 204, !.message = "No data to process"]

\* mutant: only KeyError and the transport and parse faults are caught, any
\* other exception leaves the handler
MutErrorResponse(exc) ==
    IF exc = "KeyError"
    THEN [NoResponse EXCEPT !.statusCode = 500, !.message = "Configuration error",
                            !.error = exc]
    ELSE IF exc \in {"RequestException", "ValueError"}
    THEN [NoResponse EXCEPT !.statusCode = 500, !.message = "Processing failed",
                            !.error = exc]
    ELSE [NoResponse EXCEPT !.error = exc]

\* the except clauses of lambda_handler: KeyError first, then Exception
ErrorResponse(exc) ==
    IF exc = "KeyError"
    THEN [NoResponse EXCEPT !.statusCode = 500, !.message = "Configuration error",
                            !.error = exc]
    ELSE [NoResponse EXCEPT !.statusCode = 500, !.message = "Processing failed",
                            !.error = exc]

(***************************************************************************)
(* State.                                                                  *)
(***************************************************************************)
NoLocals ==
    [event |-> "", api_endpoint |-> "", output_format |-> "",
     url |-> "", raw_data |-> NotFetched, processed_data |-> <<>>, record_count |-> -1,
     partition_path |-> -1, timestamp |-> -1, s3_key |-> NoKey,
     content_type |-> ""]

Init ==
    /\ env \in Environments
    /\ clock = 0
    /\ store = {}
    /\ pc = [i \in Invocations |-> "idle"]
    /\ loc = [i \in Invocations |-> NoLocals]
    /\ calls = [i \in Invocations |-> <<>>]
    /\ puts = [i \in Invocations |-> <<>>]
    /\ response = [i \in Invocations |-> NoResponse]
    /\ proc = NoCall
    /\ pager = NoCall
    /\ client = NoCall
    /\ writer = NoCall
    /\ retry = NoCall

\* an invocation ends by returning r
Return(i, r) ==
    /\ pc' = [pc EXCEPT ![i] = "done"]
    /\ response' = [response EXCEPT ![i] = r]

\* the wall clock advances
Tick ==
    /\ clock < MaxClock
    /\ clock' = clock + 1
    /\ UNCHANGED <<env, store, pc, loc, calls, puts, response>>
    /\ UNCHANGED lib

\* the host ends an invocation that is under way (timeout of the function)
Terminate(i) ==
    /\ pc[i] \notin {"idle", "done", "terminated"}
    /\ pc' = [pc EXCEPT ![i] = "terminated"]
    /\ UNCHANGED <<env, clock, store, loc, calls, puts, response>>
    /\ UNCHANGED lib

\* lambda_handler, configuration: environment lookups and event.get
Configure(i) ==
    /\ pc[i] = "idle"
    /\ \E event \in Events :
        IF Missing(env, "DATA_BUCKET_NAME")
        THEN /\ Return(i, ErrorResponse("KeyError"))
             /\ loc' = [loc EXCEPT ![i].event = event]
        ELSE IF event # "dict"
        THEN /\ Return(i, ErrorResponse("AttributeError"))
             /\ loc' = [loc EXCEPT ![i].event = event]
        ELSE /\ loc' = [loc EXCEPT
                    ![i].event = event,
                    ![i].api_endpoint = EnvGet(env, "API_ENDPOINT", DefaultEndpoint),
                    ![i].output_format = EnvGet(env, "OUTPUT_FORMAT", DefaultFormat)]
             /\ pc' = [pc EXCEPT ![i] = "fetch"]
             /\ UNCHANGED response
    /\ UNCHANGED <<env, clock, store, calls, puts>>
    /\ UNCHANGED lib

\* mutant: after a fault of fetch_data the handler calls it again
MutFetchData(i) ==
    /\ pc[i] = "fetch"
    /\ Len(calls[i]) < 2
    /\ calls' = [calls EXCEPT ![i] = Append(@, "fetch_data")]
    /\ \/ /\ loc' = [loc EXCEPT ![i].url = loc[i].api_endpoint]
          /\ UNCHANGED <<pc, response>>
       \/ \E r \in FetchResults :
            /\ loc' = [loc EXCEPT ![i].url = loc[i].api_endpoint, ![i].raw_data = r]
            /\ IF ~Truthy(r)
               THEN Return(i, NoDataResponse)
               ELSE IF ~HasLen(r)
               THEN Return(i, ErrorResponse("TypeError"))
               ELSE /\ pc' = [pc EXCEPT ![i] = "process"]
                    /\ UNCHANGED response
    /\ UNCHANGED <<env, clock, store, puts>>
    /\ UNCHANGED lib

\* lambda_handler, step 1: fetch_data, then the empty check and len()
FetchData(i) ==
    /\ pc[i] = "fetch"
    /\ calls' = [calls EXCEPT ![i] = Append(@, "fetch_data")]
    /\ \/ \E exc \in FetchFaults :
            /\ Return(i, ErrorResponse(exc))
            /\ loc' = [loc EXCEPT ![i].url = loc[i].api_endpoint]
       \/ \E r \in FetchResults :
            /\ loc' = [loc EXCEPT ![i].url = loc[i].api_endpoint, ![i].raw_data = r]
            /\ IF ~Truthy(r)
               THEN Return(i, NoDataResponse)
               ELSE IF ~HasLen(r)
               THEN Return(i, ErrorResponse("TypeError"))
               ELSE /\ pc' = [pc EXCEPT ![i] = "process"]
                    /\ UNCHANGED response
    /\ UNCHANGED <<env, clock, store, puts>>
    /\ UNCHANGED lib

\* lambda_handler, step 2: DataProcessor.process
ProcessData(i) ==
    /\ pc[i] = "process"
    /\ calls' = [calls EXCEPT ![i] = Append(@, "process")]
    /\ loc' = [loc EXCEPT ![i].processed_data = Process(loc[i].raw_data.items)]
    /\ pc' = [pc EXCEPT ![i] = "add_metadata"]
    /\ UNCHANGED <<env, clock, store, puts, response>>
    /\ UNCHANGED lib

\* lambda_handler: DataProcessor.add_metadata
AddMetadata(i) ==
    /\ pc[i] = "add_metadata"
    /\ calls' = [calls EXCEPT ![i] = Append(@, "add_metadata")]
    /\ loc' = [loc EXCEPT ![i].record_count =
                AddMetadataOf(loc[i].processed_data, loc[i].api_endpoint, i).record_count]
    /\ pc' = [pc EXCEPT ![i] = "partition"]
    /\ UNCHANGED <<env, clock, store, puts, response>>
    /\ UNCHANGED lib

\* lambda_handler, step 3: S3Writer(bucket) and get_partition_path()
GetPartitionPath(i) ==
    /\ pc[i] = "partition"
    /\ loc' = [loc EXCEPT ![i].partition_path = PartitionPath(clock)]
    /\ pc' = [pc EXCEPT ![i] = "write_data"]
    /\ UNCHANGED <<env, clock, store, calls, puts, response>>
    /\ UNCHANGED lib

\* S3 put_object: the object stored under a key is replaced
PutObject(st, obj) == {o \in st : o.key # obj.key} \cup {obj}

\* the data object write_data uploads: key, content type, S3 metadata, SSE
DataObject(l, request_id) ==
    [key |-> l.s3_key, content_type |-> l.content_type,
     format |-> FormatTag(l.output_format),
     record_count |-> Len(l.processed_data), timestamp |-> l.timestamp,
     request_id |-> request_id, sse |-> "AES256", data_file |-> NoKey]

\* the sidecar _write_metadata_file uploads: no S3 metadata, no SSE argument
MetadataObject(l, request_id) ==
    [key |-> MetadataKey(l.s3_key), content_type |-> "application/json",
     format |-> "", record_count |-> Len(l.processed_data), timestamp |-> -1,
     request_id |-> request_id, sse |-> "", data_file |-> l.s3_key]

\* S3Writer.write_data up to the upload: timestamp, key, content type, or
\* ValueError for an unsupported format
WriteData(i) ==
    /\ pc[i] = "write_data"
    /\ calls' = [calls EXCEPT ![i] = Append(@, "write_data")]
    /\ LET branch == FormatBranch(loc[i].output_format)
           timestamp == Timestamp(clock)
       IN  IF branch.supported
           THEN /\ loc' = [loc EXCEPT
                       ![i].timestamp = timestamp,
                       ![i].s3_key = DataKey(loc[i].partition_path, timestamp, branch.ext),
                       ![i].content_type = branch.content_type]
                /\ pc' = [pc EXCEPT ![i] = "put_data"]
                /\ UNCHANGED response
           ELSE /\ loc' = [loc EXCEPT ![i].timestamp = timestamp]
                /\ Return(i, ErrorResponse("ValueError"))
    /\ UNCHANGED <<env, clock, store, puts>>
    /\ UNCHANGED lib

\* S3Writer.write_data, the upload of the data object; a fault is logged and
\* re-raised into the handler
PutData(i) ==
    /\ pc[i] = "put_data"
    /\ LET obj == DataObject(loc[i], i)
       IN  \/ /\ store' = PutObject(store, obj)
              /\ puts' = [puts EXCEPT ![i] =
                            Append(@, [obj |-> obj, ok |-> TRUE])]
              /\ pc' = [pc EXCEPT ![i] = "put_metadata"]
              /\ UNCHANGED response
           \/ \E exc \in PutFaults :
              /\ puts' = [puts EXCEPT ![i] =
                            Append(@, [obj |-> obj, ok |-> FALSE])]
              /\ Return(i, ErrorResponse(exc))
              /\ UNCHANGED store
    /\ UNCHANGED <<env, clock, loc, calls>>
    /\ UNCHANGED lib

\* mutant: a fault of the sidecar upload is raised into the handler
MutPutMetadata(i) ==
    /\ pc[i] = "put_metadata"
    /\ LET obj == MetadataObject(loc[i], i)
       IN  \/ /\ store' = PutObject(store, obj)
              /\ puts' = [puts EXCEPT ![i] = Append(@, [obj |-> obj, ok |-> TRUE])]
              /\ Return(i, SuccessResponse(Len(loc[i].processed_data), loc[i].s3_key,
                                           loc[i].output_format))
           \/ /\ puts' = [puts EXCEPT ![i] = Append(@, [obj |-> obj, ok |-> FALSE])]
              /\ Return(i, ErrorResponse("ClientError"))
              /\ UNCHANGED store
    /\ UNCHANGED <<env, clock, loc, calls>>
    /\ UNCHANGED lib

\* S3Writer._write_metadata_file: the sidecar upload, whose fault is only
\* logged; write_data then returns the key and the handler returns 200
PutMetadata(i) ==
    /\ pc[i] = "put_metadata"
    /\ LET obj == MetadataObject(loc[i], i)
       IN  \/ /\ store' = PutObject(store, obj)
              /\ puts' = [puts EXCEPT ![i] =
                            Append(@, [obj |-> obj, ok |-> TRUE])]
           \/ /\ puts' = [puts EXCEPT ![i] =
                            Append(@, [obj |-> obj, ok |-> FALSE])]
              /\ UNCHANGED store
    /\ Return(i, SuccessResponse(Len(loc[i].processed_data), loc[i].s3_key,
                                 loc[i].output_format))
    /\ UNCHANGED <<env, clock, loc, calls>>
    /\ UNCHANGED lib

Next ==
    \/ Tick
    \/ \E i \in Invocations :
        \/ Configure(i)
        \/ FetchData(i)
        \/ ProcessData(i)
        \/ AddMetadata(i)
        \/ GetPartitionPath(i)
        \/ WriteData(i)
        \/ PutData(i)
        \/ PutMetadata(i)
        \/ Terminate(i)

Spec == Init /\ [][Next]_vars

(***************************************************************************)
(* Views of the state used by the properties.                              *)
(***************************************************************************)
\* the successful put_object calls of an invocation
SuccessfulPuts(i) == {puts[i][n].obj : n \in {m \in DOMAIN puts[i] : puts[i][m].ok}}

WroteData(i) == \E o \in SuccessfulPuts(i) : o.key.suffix = ""

WroteSidecar(i) == \E o \in SuccessfulPuts(i) : o.key.suffix = ".metadata.json"

Called(i, stage) == \E n \in DOMAIN calls[i] : calls[i][n] = stage

IsPrefix(s, t) == Len(s) <= Len(t) /\ \A n \in DOMAIN s : s[n] = t[n]

StageOrder == <<"fetch_data", "process", "add_metadata", "write_data">>

(***************************************************************************)
(* C1: two invocations of write_data on the same bucket, prefix and format *)
(* produce distinct data keys, also when both read the clock within one    *)
(* second, so that no put_object of one invocation overwrites an object    *)
(* written by another.                                                     *)
(***************************************************************************)
C1_NoOverwriteAcrossInvocations ==
    \A i, j \in Invocations :
        i # j =>
            \A p \in SuccessfulPuts(i), q \in SuccessfulPuts(j) : p.key # q.key

(***************************************************************************)
(* C2: an invocation terminated between its steps leaves either both the   *)
(* data object and its .metadata.json sidecar, or neither.                 *)
(***************************************************************************)
C2_TerminatedPairOrNothing ==
    \A i \in Invocations :
        pc[i] = "terminated" => (WroteData(i) <=> WroteSidecar(i))

(***************************************************************************)
(* C3: when fetch_data returns zero records (an empty or falsy result),    *)
(* lambda_handler returns 204 "No data to process"; the processor and the  *)
(* writer are never called and nothing is put to storage.                  *)
(***************************************************************************)
C3_EmptyFetchReturns204 ==
    \A i \in Invocations :
        (loc[i].raw_data # NotFetched /\ loc[i].raw_data.type \in {"list", "null"}
            /\ loc[i].raw_data.items = <<>>)
        => /\ pc[i] = "done"
           /\ response[i].statusCode = 204
           /\ response[i].message = "No data to process"
           /\ calls[i] = <<"fetch_data">>
           /\ puts[i] = <<>>
           /\ \A o \in store : o.request_id # i

C3_Witness ==
    \E i \in Invocations :
        /\ loc[i].raw_data = [type |-> "list", items |-> <<>>]
        /\ response[i].statusCode = 204

(***************************************************************************)
(* C4: whatever the event and whatever fault configuration, fetch, process *)
(* or write raises, lambda_handler ends by returning a result whose        *)
(* statusCode is 200, 204 or 500; no exception leaves the handler.         *)
(***************************************************************************)
C4_AlwaysStructuredResult ==
    \A i \in Invocations :
        /\ pc[i] = "done" => response[i].statusCode \in {200, 204, 500}
        /\ response[i].statusCode = 500 =>
              response[i].message \in {"Configuration error", "Processing failed"}

C4_Witness ==
    \E i, j \in Invocations :
        /\ pc[i] = "done" /\ response[i].error = "ClientError"
        /\ pc[j] = "done" /\ response[j].error = "AttributeError"

(***************************************************************************)
(* C5: with DATA_BUCKET_NAME missing from the environment, lambda_handler  *)
(* returns 500 with an error beginning "Configuration error"; no fetch is  *)
(* issued and nothing is written.                                          *)
(***************************************************************************)
C5_MissingBucketIsConfigurationError ==
    env.DATA_BUCKET_NAME = Unset =>
        \A i \in Invocations :
            /\ pc[i] \in {"idle", "done"}
            /\ pc[i] = "done" =>
                  /\ response[i].statusCode = 500
                  /\ response[i].message = "Configuration error"
            /\ calls[i] = <<>>
            /\ puts[i] = <<>>
            /\ store = {}

C5_Witness ==
    /\ env.DATA_BUCKET_NAME = Unset
    /\ \A i \in Invocations : pc[i] = "done" /\ response[i].statusCode = 500

(***************************************************************************)
(* C6: a 500 result is tagged "Configuration error" if and only if a       *)
(* required setting was missing; every fault raised in the fetch, process  *)
(* or write stage, a key-lookup fault included, is tagged "Processing      *)
(* failed".                                                                *)
(***************************************************************************)
C6_KindDistinguishesConfigFromRuntime ==
    \A i \in Invocations :
        response[i].statusCode = 500 =>
            /\ response[i].message = "Configuration error"
                  <=> Missing(env, "DATA_BUCKET_NAME")
            /\ calls[i] # <<>> => response[i].message = "Processing failed"

(***************************************************************************)
(* C7, as claimed: API_ENDPOINT is a required setting; an invocation whose *)
(* environment lacks it ends in a configuration failure (500) and issues   *)
(* no fetch.                                                               *)
(***************************************************************************)
C7_EndpointRequired ==
    env.API_ENDPOINT = Unset =>
        \A i \in Invocations :
            /\ ~Called(i, "fetch_data")
            /\ pc[i] = "done" => response[i].statusCode = 500

(***************************************************************************)
(* C7, amended: API_ENDPOINT is not required.  With DATA_BUCKET_NAME set   *)
(* and API_ENDPOINT missing, configuration succeeds for a mapping event,   *)
(* the endpoint falls back to the default URL and the fetch is issued      *)
(* against it; the output encoding likewise falls back to "parquet".       *)
(* DATA_BUCKET_NAME is the only setting whose absence fails configuration. *)
(***************************************************************************)
C7_EndpointDefaults ==
    \A i \in Invocations :
        (pc[i] # "idle" /\ loc[i].event = "dict" /\ env.DATA_BUCKET_NAME # Unset)
        => /\ loc[i].api_endpoint =
                 (IF env.API_ENDPOINT = Unset THEN DefaultEndpoint ELSE env.API_ENDPOINT)
           /\ loc[i].output_format =
                 (IF env.OUTPUT_FORMAT = Unset THEN DefaultFormat ELSE env.OUTPUT_FORMAT)
           /\ pc[i] = "done" => Called(i, "fetch_data")
           /\ Called(i, "fetch_data") => loc[i].url = loc[i].api_endpoint

C7_Witness ==
    \E i \in Invocations :
        /\ env.API_ENDPOINT = Unset
        /\ Called(i, "fetch_data")
        /\ loc[i].url = DefaultEndpoint
        /\ response[i].statusCode = 200

(***************************************************************************)
(* C8: within one invocation the stage calls occur in the order            *)
(* fetch_data, process, add_metadata, write_data, each at most once; no    *)
(* stage is re-invoked after a fault, process is called only after         *)
(* fetch_data returned a non-empty result, and write_data only after       *)
(* process returned.                                                       *)
(***************************************************************************)
C8_StagesInOrderAtMostOnce ==
    \A i \in Invocations :
        /\ IsPrefix(calls[i], StageOrder)
        /\ Called(i, "process") =>
              loc[i].raw_data.type = "list" /\ Len(loc[i].raw_data.items) > 0
        /\ Called(i, "write_data") =>
              loc[i].processed_data = Process(loc[i].raw_data.items)
        /\ response[i].statusCode = 500 => pc[i] = "done"

C8_Witness ==
    \E i, j \in Invocations :
        /\ calls[i] = StageOrder /\ response[i].statusCode = 200
        /\ calls[j] = <<"fetch_data">> /\ response[j].statusCode = 500

(***************************************************************************)
(* C9: in every 200 result details.format names the encoding used for the  *)
(* persisted data object: it agrees with the extension of the key in       *)
(* details.s3_location and with the content type and the format tag the    *)
(* writer set on that object, for every OUTPUT_FORMAT, the default         *)
(* "parquet" included.                                                     *)
(***************************************************************************)
C9_ReportedFormatIsEncodingUsed ==
    \A i \in Invocations :
        response[i].statusCode = 200 =>
            /\ response[i].format = response[i].s3_location.ext
            /\ \A o \in SuccessfulPuts(i) :
                  o.key = response[i].s3_location =>
                      /\ o.format = response[i].format
                      /\ EncodingOfContentType(o.content_type) = response[i].format

(***************************************************************************)
(* C10: write_data with a format outside {json, csv, parquet} fails with    *)
(* the unsupported-format error before any put_object: neither the data    *)
(* object nor the sidecar is written and the store is unchanged.           *)
(***************************************************************************)
C10_UnsupportedFormatWritesNothing ==
    \A i \in Invocations :
        (Called(i, "write_data") /\ loc[i].output_format \notin SupportedFormats)
        => /\ pc[i] = "done"
           /\ response[i].statusCode = 500
           /\ response[i].error = "ValueError"
           /\ loc[i].s3_key = NoKey
           /\ puts[i] = <<>>
           /\ \A o \in store : o.request_id # i

C10_Witness ==
    \E i \in Invocations :
        /\ Called(i, "write_data")
        /\ loc[i].output_format = "xml"
        /\ response[i].error = "ValueError"

(***************************************************************************)
(* C11: when the put_object of the sidecar fails after the data object was *)
(* written, write_data still returns the data key without raising and      *)
(* lambda_handler still returns 200; the data object stays in place.       *)
(***************************************************************************)
SidecarPutFailed(i) ==
    \E n \in DOMAIN puts[i] :
        puts[i][n].obj.key.suffix = ".metadata.json" /\ ~puts[i][n].ok

C11_SidecarFailureStillSucceeds ==
    \A i \in Invocations :
        SidecarPutFailed(i)
        => /\ pc[i] = "done"
           /\ response[i].statusCode = 200
           /\ response[i].s3_location = loc[i].s3_key
           /\ WroteData(i)
           /\ ~WroteSidecar(i)
           /\ \E o \in store : o.key = loc[i].s3_key

C11_Witness ==
    \E i \in Invocations :
        /\ SidecarPutFailed(i)
        /\ response[i].statusCode = 200
        /\ \E o \in store : o.key = loc[i].s3_key /\ o.request_id = i

(***************************************************************************)
(* C12: every put_object call S3Writer issues, for the data object and for *)
(* the sidecar metadata object, requests server-side encryption.           *)
(***************************************************************************)
C12_EveryPutRequestsEncryption ==
    \A i \in Invocations :
        \A n \in DOMAIN puts[i] : puts[i][n].obj.sse = "AES256"

(***************************************************************************)
(* DataProcessor on JSON values.  A value is [t, s, n, items]: its type,   *)
(* its text (strings, and str() of numbers), its number (ints; floats in   *)
(* hundredths; booleans as 0/1) and its content (the key/value pairs of a  *)
(* mapping in insertion order, the elements of a list).                    *)
(***************************************************************************)
\* longest list of raw records handed to process
MaxBatch == 2

Null == [t |-> "null", s |-> "None", n |-> 0, items |-> <<>>]

StrVal(text) == [t |-> "str", s |-> text, n |-> 0, items |-> <<>>]

IntVal(i, text) == [t |-> "int", s |-> text, n |-> i, items |-> <<>>]

FloatVal(hundredths) == [t |-> "float", s |-> "", n |-> hundredths, items |-> <<>>]

BoolVal(b) ==
    [t |-> "bool", s |-> (IF b THEN "True" ELSE "False"), n |-> (IF b THEN 1 ELSE 0),
     items |-> <<>>]

ListVal(elements) == [t |-> "list", s |-> "", n |-> 0, items |-> elements]

DictVal(pairs) == [t |-> "dict", s |-> "", n |-> 0, items |-> pairs]

Pair(k, v) == [k |-> k, v |-> v]

\* key in mapping
HasKey(m, k) == \E n \in DOMAIN m.items : m.items[n].k = k

\* mapping[key]
Get(m, k) == m.items[CHOOSE n \in DOMAIN m.items : m.items[n].k = k].v

\* mapping.get(key, default)
GetOr(m, k, default) == IF HasKey(m, k) THEN Get(m, k) ELSE default

\* mapping[key] = value: a present key keeps its position
DictSet(m, k, v) ==
    IF HasKey(m, k)
    THEN DictVal([n \in DOMAIN m.items |->
                    IF m.items[n].k = k THEN Pair(k, v) ELSE m.items[n]])
    ELSE DictVal(Append(m.items, Pair(k, v)))

\* dict(items), and the {..., **mapping, ...} display: later pairs win
RECURSIVE DictUpdate(_, _)
DictUpdate(m, pairs) ==
    IF pairs = <<>> THEN m
    ELSE DictUpdate(DictSet(m, Head(pairs).k, Head(pairs).v), Tail(pairs))

\* Python truthiness of a JSON value (`if not record`)
TruthyValue(v) ==
    CASE v.t = "null" -> FALSE
      [] v.t = "str"  -> v.s # ""
      [] v.t \in {"int", "float", "bool"} -> v.n # 0
      [] OTHER -> v.items # <<>>

\* keys in sorted order, for json.dumps(sort_keys=True)
SortedKeys ==
    <<"addr", "city", "created_at", "geo", "id", "lat">>

\* json.dumps of a value; mappings with their keys in the given order (each
\* member closed by ";": the text of a mapping is only ever hashed)
RECURSIVE JsonText(_, _)
RECURSIVE JsonMembers(_, _, _)
RECURSIVE JsonElements(_, _)
JsonText(v, order) ==
    CASE v.t = "null" -> "null"
      [] v.t = "str"  -> "\"" \o v.s \o "\""
      [] v.t \in {"int", "bool"} -> v.s
      [] v.t = "list" -> "[" \o JsonElements(v.items, order) \o "]"
      [] v.t = "dict" -> "{" \o JsonMembers(v, order, order) \o "}"
      [] OTHER -> v.s

JsonElements(elements, order) ==
    IF elements = <<>> THEN ""
    ELSE JsonText(Head(elements), order)
            \o (IF Len(elements) > 1 THEN ", " ELSE "")
            \o JsonElements(Tail(elements), order)

JsonMembers(m, keys, order) ==
    IF keys = <<>> THEN ""
    ELSE (IF HasKey(m, Head(keys))
          THEN "\"" \o Head(keys) \o "\": " \o JsonText(Get(m, Head(keys)), order) \o ";"
          ELSE "")
         \o JsonMembers(m, Tail(keys), order)

\* json.dumps(value) as _flatten_record stores a list
JsonDumps(v) == StrVal(JsonText(v, SortedKeys))

\* str(value)
Str(v) ==
    IF v.t \in {"null", "str", "int", "bool"} THEN StrVal(v.s)
    ELSE StrVal(JsonText(v, SortedKeys))

\* DataProcessor._generate_id: md5 of the sorted-key serialization
GenerateId(record) == StrVal("md5(" \o JsonText(record, SortedKeys) \o ")")

\* datetime.now(UTC).isoformat() at processing time
NowIso == StrVal("<now>")

\* mutant: a list value is kept as it is
RECURSIVE MutFlattenItems(_, _)
RECURSIVE MutFlattenInner(_, _)
MutFlattenItems(pairs, parent_key) ==
    IF pairs = <<>> THEN <<>>
    ELSE LET key == Head(pairs).k
             value == Head(pairs).v
             new_key == IF parent_key # "" THEN parent_key \o "_" \o key ELSE key
         IN  (IF value.t = "dict"
              THEN MutFlattenInner(value, new_key).items
              ELSE <<Pair(new_key, value)>>)
             \o MutFlattenItems(Tail(pairs), parent_key)

MutFlattenInner(record, parent_key) ==
    DictUpdate(DictVal(<<>>), MutFlattenItems(record.items, parent_key))

\* DataProcessor._flatten_record: the items list of the loop, and dict(items)
RECURSIVE FlattenItems(_, _)
RECURSIVE FlattenRecord(_, _)
FlattenItems(pairs, parent_key) ==
    IF pairs = <<>> THEN <<>>
    ELSE LET key == Head(pairs).k
             value == Head(pairs).v
             new_key == IF parent_key # "" THEN parent_key \o "_" \o key ELSE key
         IN  (IF value.t = "dict"
              THEN FlattenRecord(value, new_key).items
              ELSE IF value.t = "list"
              THEN <<Pair(new_key, JsonDumps(value))>>
              ELSE <<Pair(new_key, value)>>)
             \o FlattenItems(Tail(pairs), parent_key)

FlattenRecord(record, parent_key) ==
    DictUpdate(DictVal(<<>>), FlattenItems(record.items, parent_key))

\* the number of fields whose value is neither None nor ""
FilledFields(record) ==
    Cardinality({n \in DOMAIN record.items :
                    record.items[n].v.t # "null" /\ record.items[n].v # StrVal("")})

\* round(filled / total, 2), in hundredths: to the nearest, ties to even
Round2(filled, total) ==
    LET q == (100 * filled) \div total
        r == (100 * filled) % total
    IN  IF 2 * r > total THEN q + 1
        ELSE IF 2 * r < total THEN q
        ELSE IF q % 2 = 0 THEN q ELSE q + 1

\* mutant: the empty record is not guarded
MutCalculateQualityScore(record) ==
    FloatVal(Round2(FilledFields(record) + 1, Len(record.items) + 1))

\* DataProcessor._calculate_quality_score
CalculateQualityScore(record) ==
    IF Len(record.items) = 0 THEN FloatVal(0)
    ELSE FloatVal(Round2(FilledFields(record), Len(record.items)))

\* DataProcessor._check_completeness, required_fields = ["id"]
CheckCompleteness(record) ==
    BoolVal(HasKey(record, "id") /\ Get(record, "id").t # "null")

\* the dict display of _process_record, in its order: id, created_at,
\* processed_at, then the flattened record, then the quality indicators
StandardizedRecord(record) ==
    DictUpdate(DictVal(<<>>),
        <<Pair("id", Str(GetOr(record, "id", GenerateId(record)))),
          Pair("created_at", NowIso),
          Pair("processed_at", NowIso)>>
        \o FlattenRecord(record, "").items
        \o <<Pair("data_quality_score", CalculateQualityScore(record)),
             Pair("is_complete", CheckCompleteness(record))>>)

\* DataProcessor._process_record on a JSON value: None for a falsy record,
\* AttributeError for a truthy value without .get, else the processed record
ProcessRecordValue(record) ==
    IF ~TruthyValue(record) THEN [outcome |-> "none", value |-> Null]
    ELSE IF record.t # "dict" THEN [outcome |-> "raise", value |-> Null]
    ELSE [outcome |-> "record", value |-> StandardizedRecord(record)]

\* mutant: a fault of one record ends the loop and leaves process
RECURSIVE MutProcessBatch(_)
MutProcessBatch(raw_data) ==
    IF raw_data = <<>> THEN [raised |-> FALSE, processed_data |-> <<>>]
    ELSE LET r == ProcessRecordValue(Head(raw_data))
             rest == MutProcessBatch(Tail(raw_data))
         IN  IF r.outcome = "raise" THEN [raised |-> TRUE, processed_data |-> <<>>]
             ELSE IF r.outcome = "record"
             THEN [rest EXCEPT !.processed_data = <<r.value>> \o @]
             ELSE rest

\* DataProcessor.process on JSON values: the loop with its try/except
RECURSIVE ProcessBatch(_)
ProcessBatch(raw_data) ==
    IF raw_data = <<>> THEN [raised |-> FALSE, processed_data |-> <<>>]
    ELSE LET r == ProcessRecordValue(Head(raw_data))
             rest == ProcessBatch(Tail(raw_data))
         IN  IF r.outcome = "record"
             THEN [rest EXCEPT !.processed_data = <<r.value>> \o @]
             ELSE rest

(***************************************************************************)
(* Raw records handed to the processor: mappings over the fields id,       *)
(* created_at and addr, and list elements that are not mappings.           *)
(***************************************************************************)
\* a field left out, or present with one of the values
Optional(k, values) == {<<>>} \cup {<<Pair(k, v)>> : v \in values}

IdValues == {Null, StrVal(""), IntVal(1, "1")}

CreatedAtValues == {StrVal("2020-01-01")}

AddrValues ==
    {DictVal(<<Pair("city", StrVal("Cali"))>>),
     DictVal(<<Pair("geo", DictVal(<<Pair("lat", IntVal(1, "1"))>>))>>),
     ListVal(<<IntVal(1, "1")>>)}

RawMappings ==
    {DictVal(i \o c \o a) :
        i \in Optional("id", IdValues),
        c \in Optional("created_at", CreatedAtValues),
        a \in Optional("addr", AddrValues)}

\* what a list returned by the API can hold
RawElements == RawMappings \cup {StrVal("text"), Null}

\* the handler at rest, while a library function is exercised on its own
HandlerAtRest ==
    /\ env = [DATA_BUCKET_NAME |-> "bucket", API_ENDPOINT |-> ConfiguredEndpoint,
              OUTPUT_FORMAT |-> "json"]
    /\ clock = 0
    /\ store = {}
    /\ pc = [i \in Invocations |-> "idle"]
    /\ loc = [i \in Invocations |-> NoLocals]
    /\ calls = [i \in Invocations |-> <<>>]
    /\ puts = [i \in Invocations |-> <<>>]
    /\ response = [i \in Invocations |-> NoResponse]

\* a DataProcessor and a list of raw records, no method called yet
ProcInit ==
    /\ HandlerAtRest
    /\ pager = NoCall
    /\ client = NoCall
    /\ writer = NoCall
    /\ retry = NoCall
    /\ proc \in {[phase |-> "call", raw_data |-> b, raised |-> FALSE,
                  processed_data |-> <<>>, scored |-> FALSE, scores |-> <<>>] :
                    b \in SeqsUpTo(RawElements, MaxBatch)}

\* DataProcessor.process(raw_data)
ProcessCall ==
    /\ proc.phase = "call"
    /\ LET result == ProcessBatch(proc.raw_data)
       IN  proc' = [proc EXCEPT !.phase = "returned", !.raised = result.raised,
                                !.processed_data = result.processed_data]
    /\ UNCHANGED <<handler, pager, client, writer, retry>>

\* DataProcessor._calculate_quality_score on each mapping of raw_data
ScoreCall ==
    /\ proc.phase # "none"
    /\ ~proc.scored
    /\ proc' = [proc EXCEPT !.scored = TRUE,
                  !.scores = [n \in DOMAIN proc.raw_data |->
                                IF proc.raw_data[n].t = "dict"
                                THEN CalculateQualityScore(proc.raw_data[n])
                                ELSE Null]]
    /\ UNCHANGED <<handler, pager, client, writer, retry>>

ProcNext == ProcessCall \/ ScoreCall

ProcSpec == ProcInit /\ [][ProcNext]_vars

\* the raw records process keeps: truthy mappings
Kept(raw_data) ==
    SelectSeq(raw_data, LAMBDA r : TruthyValue(r) /\ r.t = "dict")

Returned == proc.phase = "returned"

(***************************************************************************)
(* C13: process never raises, whatever the list of raw records: a record   *)
(* whose processing raises is skipped and the others are still processed;  *)
(* the output is the processed forms of the non-failing, non-empty input   *)
(* records in input order, and is never longer than the input.             *)
(***************************************************************************)
C13_ProcessIsolatesRecordFaults ==
    Returned =>
        /\ ~proc.raised
        /\ Len(proc.processed_data) = Len(Kept(proc.raw_data))
        /\ \A n \in DOMAIN proc.processed_data :
              proc.processed_data[n] = StandardizedRecord(Kept(proc.raw_data)[n])
        /\ Len(proc.processed_data) <= Len(proc.raw_data)

C13_Witness ==
    /\ Returned
    /\ Len(proc.raw_data) = 2
    /\ proc.raw_data[1] = StrVal("text")
    /\ proc.raw_data[2].t = "dict"
    /\ Len(proc.processed_data) = 1

\* the raw record the n-th processed record was made from
RawOf(n) == Kept(proc.raw_data)[n]

(***************************************************************************)
(* C14: for every raw record that carries its own id field, the id of the  *)
(* processed record is that value coerced to a string (raw id 1 gives      *)
(* processed id "1"), not the raw value in its original type.              *)
(***************************************************************************)
C14_OwnIdCoercedToString ==
    Returned =>
        \A n \in DOMAIN proc.processed_data :
            HasKey(RawOf(n), "id") =>
                /\ Get(proc.processed_data[n], "id").t = "str"
                /\ Get(proc.processed_data[n], "id") = Str(Get(RawOf(n), "id"))

(***************************************************************************)
(* C15: every processed record has a non-empty id (neither null nor the    *)
(* empty string) and carries created_at and processed_at as timestamps     *)
(* assigned at processing time, also when the raw record has its own id,   *)
(* created_at or processed_at, null, empty or otherwise set.               *)
(***************************************************************************)
C15_IdAndTimestampsAlwaysSet ==
    Returned =>
        \A n \in DOMAIN proc.processed_data :
            /\ Get(proc.processed_data[n], "id").t # "null"
            /\ Get(proc.processed_data[n], "id") # StrVal("")
            /\ Get(proc.processed_data[n], "created_at") = NowIso
            /\ Get(proc.processed_data[n], "processed_at") = NowIso

(***************************************************************************)
(* C16: flattening is total: at any nesting depth no value of a processed  *)
(* record is a nested mapping or a sequence; nested mappings are merged    *)
(* into the parent under parent_child keys and sequences are replaced by   *)
(* their serialized string.                                                *)
(***************************************************************************)
C16_FlatteningIsTotal ==
    Returned =>
        \A n \in DOMAIN proc.processed_data :
            LET out == proc.processed_data[n]
                raw == RawOf(n)
            IN  /\ \A m \in DOMAIN out.items : out.items[m].v.t \notin {"dict", "list"}
                /\ \A m \in DOMAIN raw.items :
                      LET k == raw.items[m].k
                          v == raw.items[m].v
                      IN  /\ v.t = "list" => Get(out, k) = StrVal(JsonText(v, SortedKeys))
                          /\ v.t = "dict" =>
                                \A c \in DOMAIN v.items :
                                    LET ck == k \o "_" \o v.items[c].k
                                        cv == v.items[c].v
                                    IN  IF cv.t = "dict"
                                        THEN \A g \in DOMAIN cv.items :
                                                Get(out, ck \o "_" \o cv.items[g].k)
                                                    = cv.items[g].v
                                        ELSE Get(out, ck) = cv

C16_Witness ==
    /\ Returned
    /\ \E n \in DOMAIN proc.processed_data :
          /\ HasKey(proc.processed_data[n], "addr_geo_lat")
          /\ ~HasKey(proc.processed_data[n], "addr")
    /\ \E n \in DOMAIN proc.processed_data :
          /\ HasKey(proc.processed_data[n], "addr")
          /\ Get(proc.processed_data[n], "addr") = StrVal("[1]")

(***************************************************************************)
(* C17: the output of process is deduplicated by id: no two records of the *)
(* output share the same id.                                               *)
(***************************************************************************)
C17_OutputDeduplicatedById ==
    Returned =>
        \A m, n \in DOMAIN proc.processed_data :
            m # n => Get(proc.processed_data[m], "id") # Get(proc.processed_data[n], "id")

(***************************************************************************)
(* C18: the quality score of a record is filled / total over the top-level *)
(* fields of the record before flattening (filled: neither null nor the    *)
(* empty string), to the nearest hundredth; it lies in [0, 1]; a record    *)
(* with zero fields scores exactly 0 and raises no division fault.         *)
(***************************************************************************)
\* score, in hundredths, is filled / total to the nearest hundredth
IsRatioOf(score, raw) ==
    LET total == Len(raw.items)
        filled == Cardinality({m \in DOMAIN raw.items :
                                  ~(raw.items[m].v.t = "null"
                                    \/ (raw.items[m].v.t = "str" /\ raw.items[m].v.s = ""))})
    IN  /\ score.t = "float"
        /\ 0 <= score.n /\ score.n <= 100
        /\ filled <= total
        /\ IF total = 0 THEN score.n = 0
           ELSE /\ 2 * (score.n * total - 100 * filled) <= total
                /\ 2 * (100 * filled - score.n * total) <= total

MaxPages == 2

\* most page requests followed for a call that does not stop by itself
MaxRequests == 4

\* the non-empty lists one page can hold
PageContents == {<<"a">>, <<"b">>, <<"a", "b">>}

Sources ==
    {[pages |-> p, endless |-> e] :
        p \in SeqsUpTo(PageContents, MaxPages), e \in BOOLEAN}

\* max_pages: Optional[int] = None
NoMaxPages == [given |-> FALSE, n |-> 0]

MaxPagesArgs ==
    {NoMaxPages} \cup {[given |-> TRUE, n |-> n] : n \in (-1)..(MaxPages + 1)}

\* what fetch_data returns for {"page": page}
PageOf(source, page) ==
    IF page \in DOMAIN source.pages THEN source.pages[page]
    ELSE IF source.endless THEN <<"a">>
    ELSE <<>>

\* `if max_pages and page > max_pages`
LimitReached(max_pages, page) ==
    /\ max_pages.given
    /\ max_pages.n # 0
    /\ page > max_pages.n

\* mutant: the page counter is not advanced
MutNextPage(page) == page

\* page += 1
NextPage(page) == page + 1

\* all_data = [], page = 1, before the first pass of the loop
PageInit ==
    /\ HandlerAtRest
    /\ proc = NoCall
    /\ client = NoCall
    /\ writer = NoCall
    /\ retry = NoCall
    /\ pager \in {[phase |-> "loop", source |-> src, max_pages |-> m, page |-> 1,
                   all_data |-> <<>>, requests |-> <<>>] :
                     src \in Sources, m \in MaxPagesArgs}

\* a pass of the loop that leaves at the max_pages test
StopAtMaxPages ==
    /\ pager.phase = "loop"
    /\ LimitReached(pager.max_pages, pager.page)
    /\ pager' = [pager EXCEPT !.phase = "returned"]
    /\ UNCHANGED <<handler, proc, client, writer, retry>>

\* a pass of the loop whose fetch_data returns: leave on an empty page, else
\* extend all_data and advance the page
FetchPage ==
    /\ pager.phase = "loop"
    /\ ~LimitReached(pager.max_pages, pager.page)
    /\ Len(pager.requests) < MaxRequests
    /\ LET data == PageOf(pager.source, pager.page)
       IN  IF data = <<>>
           THEN pager' = [pager EXCEPT !.phase = "returned",
                                       !.requests = Append(@, pager.page)]
           ELSE pager' = [pager EXCEPT !.requests = Append(@, pager.page),
                                       !.all_data = @ \o data,
                                       !.page = NextPage(@)]
    /\ UNCHANGED <<handler, proc, client, writer, retry>>

\* a pass of the loop whose fetch_data raises after its retries
FetchPageFault ==
    /\ pager.phase = "loop"
    /\ ~LimitReached(pager.max_pages, pager.page)
    /\ Len(pager.requests) < MaxRequests
    /\ pager' = [pager EXCEPT !.phase = "raised",
                              !.requests = Append(@, pager.page)]
    /\ UNCHANGED <<handler, proc, client, writer, retry>>

PageNext == StopAtMaxPages \/ FetchPage \/ FetchPageFault

PageSpec == PageInit /\ [][PageNext]_vars

\* the loop runs on: a pass that can be taken is taken
PageLiveSpec == PageSpec /\ WF_vars(PageNext)

\* the concatenation of pages, in order
RECURSIVE Concat(_)
Concat(pages) == IF pages = <<>> THEN <<>> ELSE Head(pages) \o Concat(Tail(pages))

\* the requests of the call that got a non-empty page back
FruitfulRequests ==
    {k \in DOMAIN pager.requests : PageOf(pager.source, pager.requests[k]) # <<>>}

\* N non-empty pages then the empty page, and no max_pages
FiniteUnlimited == ~pager.source.endless /\ ~pager.max_pages.given

(***************************************************************************)
(* C19: against a source that returns N non-empty pages and then an empty  *)
(* page, fetch_paginated_data terminates; it requests pages 1, 2, ... in   *)
(* increasing order one at a time, makes exactly N fetches that return     *)
(* records, and returns the concatenation of those N pages in order.       *)
(***************************************************************************)
C19_PagesInOrder ==
    /\ pager.requests = [k \in 1..Len(pager.requests) |-> k]
    /\ FiniteUnlimited =>
          /\ Len(pager.requests) <= Len(pager.source.pages) + 1
          /\ pager.phase = "returned" =>
                /\ Len(pager.requests) = Len(pager.source.pages) + 1
                /\ Cardinality(FruitfulRequests) = Len(pager.source.pages)
                /\ pager.all_data = Concat(pager.source.pages)

C19_PaginationTerminates ==
    /\ []C19_PagesInOrder
    /\ (FiniteUnlimited => <>(pager.phase # "loop"))

C19_Witness ==
    /\ FiniteUnlimited
    /\ pager.phase = "returned"
    /\ Len(pager.source.pages) = 2
    /\ pager.requests = <<1, 2, 3>>
    /\ pager.all_data = pager.source.pages[1] \o pager.source.pages[2]

(***************************************************************************)
(* C20: whenever max_pages is supplied (any integer, 0 included), the loop *)
(* stops once max_pages is reached: at most max_pages page requests are    *)
(* issued, even if the source never returns an empty page.                 *)
(***************************************************************************)
C20_MaxPagesBoundsRequests ==
    pager.max_pages.given =>
        Len(pager.requests) <= (IF pager.max_pages.n > 0 THEN pager.max_pages.n ELSE 0)

(***************************************************************************)
(* APIClient.fetch_data: one call, its HTTP requests under the backoff     *)
(* decorator, and the normalisation of the parsed payload.                 *)
(***************************************************************************)
\* backoff.on_exception(..., max_tries=3, ...)
MaxTries == 3

\* one raw record of a payload
Rec == DictVal(<<Pair("id", IntVal(1, "1"))>>)

\* what response.json() can give
Payloads ==
    {ListVal(<<>>),
     ListVal(<<Rec>>),
     DictVal(<<Pair("data", ListVal(<<Rec>>))>>),
     DictVal(<<Pair("items", ListVal(<<>>)), Pair("results", ListVal(<<Rec>>))>>),
     DictVal(<<Pair("items", ListVal(<<Rec, Rec>>))>>),
     DictVal(<<Pair("results", ListVal(<<Rec>>)), Pair("data", ListVal(<<>>))>>),
     DictVal(<<Pair("data", StrVal("text"))>>),
     DictVal(<<Pair("data", Null)>>),
     DictVal(<<Pair("results", Rec)>>),
     Rec,
     DictVal(<<>>),
     StrVal("text"),
     IntVal(1, "1"),
     Null}

\* how one HTTP request of the call can fail: the transport, the timeout,
\* raise_for_status on a 4xx or 5xx status, response.json() on a bad body
Faults == {"connection", "timeout", "http_4xx", "http_5xx", "bad_json"}

\* "Handle different response structures"
Normalise(data) ==
    IF data.t = "list" THEN data
    ELSE IF data.t = "dict"
    THEN IF HasKey(data, "data") THEN Get(data, "data")
         ELSE IF HasKey(data, "results") THEN Get(data, "results")
         ELSE IF HasKey(data, "items") THEN Get(data, "items")
         ELSE ListVal(<<data>>)
    ELSE ListVal(<<>>)

\* the exceptions backoff retries: requests.RequestException and its
\* subclasses (ConnectionError, Timeout, HTTPError of raise_for_status); the
\* error of response.json() is one of them in the requests releases where
\* JSONDecodeError derives from RequestException, a plain ValueError before
Retried(fault, json_error_is_request_exception) ==
    \/ fault \in {"connection", "timeout", "http_4xx", "http_5xx"}
    \/ fault = "bad_json" /\ json_error_is_request_exception

\* an APIClient and one call of fetch_data, no request issued yet
ClientInit ==
    /\ HandlerAtRest
    /\ proc = NoCall
    /\ pager = NoCall
    /\ writer = NoCall
    /\ retry = NoCall
    /\ client \in {[phase |-> "call", json_error_is_request_exception |-> b,
                    attempts |-> <<>>, time_up |-> FALSE,
                    payload |-> Null, result |-> Null] : b \in BOOLEAN}

\* one HTTP request that is answered with a parseable body
RequestOk ==
    /\ client.phase = "call"
    /\ \E data \in Payloads :
          client' = [client EXCEPT !.phase = "returned",
                                   !.attempts = Append(@, "ok"),
                                   !.payload = data,
                                   !.result = Normalise(data)]
    /\ UNCHANGED <<handler, proc, pager, writer, retry>>

\* mutant: one try more before giving up
MutGiveUp(fault, tries, elapsed, json_error_is_request_exception) ==
    \/ ~Retried(fault, json_error_is_request_exception)
    \/ tries = MaxTries + 1
    \/ elapsed

\* backoff gives up, and the fault leaves fetch_data, on an exception it
\* does not retry, on try max_tries, or when max_time had elapsed
GiveUp(fault, tries, elapsed, json_error_is_request_exception) ==
    \/ ~Retried(fault, json_error_is_request_exception)
    \/ tries = MaxTries
    \/ elapsed

\* one HTTP request that fails: fetch_data logs and re-raises, and backoff
\* gives up or waits and calls fetch_data again.  The elapsed time is read
\* when a try starts, so max_time cannot have elapsed on the first try.
RequestFault ==
    /\ client.phase = "call"
    /\ LET tries == Len(client.attempts) + 1
       IN  \E fault \in Faults, elapsed \in (IF tries > 1 THEN BOOLEAN ELSE {FALSE}) :
              client' = [client EXCEPT
                  !.phase = IF GiveUp(fault, tries, elapsed,
                                      client.json_error_is_request_exception)
                            THEN "raised" ELSE "call",
                  !.attempts = Append(@, fault),
                  !.time_up = elapsed]
    /\ UNCHANGED <<handler, proc, pager, writer, retry>>

ClientNext == RequestOk \/ RequestFault

ClientSpec == ClientInit /\ [][ClientNext]_vars

\* the wrapper keys in their priority order
WrapperKeys == <<"data", "results", "items">>

(***************************************************************************)
(* C21: fetch_data normalizes every parseable payload to a sequence of     *)
(* records: a top-level sequence as is; a mapping gives the value under    *)
(* the first present key of data, results, items; a mapping with none of   *)
(* them gives the one-element sequence of that mapping; any other shape    *)
(* gives the empty sequence.  In all cases the returned value is a         *)
(* sequence, whatever the type of the value under the wrapper key.         *)
(***************************************************************************)
C21_ResultIsAlwaysASequence ==
    client.phase = "returned" =>
        LET data == client.payload
            present == {n \in DOMAIN WrapperKeys : data.t = "dict" /\ HasKey(data, WrapperKeys[n])}
        IN  /\ client.result.t = "list"
            /\ data.t = "list" => client.result = data
            /\ data.t = "dict" /\ present # {} =>
                  client.result =
                      Get(data, WrapperKeys[CHOOSE n \in present : \A m \in present : n <= m])
            /\ data.t = "dict" /\ present = {} => client.result = ListVal(<<data>>)
            /\ data.t \notin {"list", "dict"} => client.result = ListVal(<<>>)

\* the faults the claims call transient: transport and timeout
Transient == {"connection", "timeout"}

\* the requests of the call before the last one
Earlier == 1..(Len(client.attempts) - 1)

LastAttempt == client.attempts[Len(client.attempts)]

(***************************************************************************)
(* C22 as stated: one call of fetch_data issues at most 3 HTTP requests;   *)
(* after a transient transport or timeout fault it retries, it stops at    *)
(* the first successful response and returns its records, and the fault    *)
(* propagates when the third attempt also fails (so a transient fault      *)
(* leaves the call only on the third request).                             *)
(***************************************************************************)
C22_TransientFaultAlwaysRetried ==
    /\ Len(client.attempts) <= MaxTries
    /\ client.phase = "returned" =>
          /\ LastAttempt = "ok"
          /\ \A n \in Earlier : client.attempts[n] # "ok"
    /\ client.phase = "raised" /\ LastAttempt \in Transient =>
          Len(client.attempts) = MaxTries

(***************************************************************************)
(* C22 amended: one call of fetch_data issues at most 3 HTTP requests; it  *)
(* stops at the first successful response and returns its normalized       *)
(* records; a transient fault is retried unless it is the third request    *)
(* or max_time had elapsed when the failing request started, and in these  *)
(* two cases the fault propagates to the caller.                           *)
(***************************************************************************)
C22_AtMostThreeRequests ==
    /\ Len(client.attempts) <= MaxTries
    /\ client.phase = "call" =>
          /\ Len(client.attempts) < MaxTries
          /\ \A n \in DOMAIN client.attempts : client.attempts[n] # "ok"
    /\ client.phase = "returned" =>
          /\ LastAttempt = "ok"
          /\ \A n \in Earlier : client.attempts[n] # "ok"
          /\ client.result = Normalise(client.payload)
    /\ client.phase = "raised" =>
          /\ LastAttempt # "ok"
          /\ LastAttempt \in Transient =>
                Len(client.attempts) = MaxTries \/ client.time_up
    /\ Len(client.attempts) = MaxTries /\ LastAttempt # "ok" => client.phase = "raised"

C22_Witness ==
    \/ /\ client.phase = "returned"
       /\ client.attempts = <<"timeout", "connection", "ok">>
       /\ client.result = ListVal(<<Rec>>)
    \/ /\ client.phase = "raised"
       /\ client.attempts = <<"connection", "timeout", "timeout">>
       /\ ~client.time_up

(***************************************************************************)
(* C23: non-transient faults are not retried: when a response carries a    *)
(* 4xx status, or its body cannot be parsed, exactly one HTTP request is   *)
(* issued for the call and the fault is raised to the caller at once.      *)
(***************************************************************************)
C23_NonTransientNotRetried ==
    \A n \in DOMAIN client.attempts :
        client.attempts[n] \in {"http_4xx", "bad_json"} =>
            /\ Len(client.attempts) = 1
            /\ client.phase = "raised"

(***************************************************************************)
(* S3Writer._to_csv_simple.  Text is a sequence of characters here, so     *)
(* that the separators inside it can be told from the ones between cells;  *)
(* the text of a string value is held in its field s.                      *)
(***************************************************************************)
\* longest list of records handed to _to_csv_simple
MaxRows == 2

\* None, with the text str() gives it
CsvNone == [t |-> "null", s |-> <<"N", "o", "n", "e">>, n |-> 0, items |-> <<>>]

\* the values of a csv field: "x", "x,y", 1, None
CsvValues ==
    {StrVal(<<"x">>), StrVal(<<"x", ",", "y">>), IntVal(1, <<"1">>), CsvNone}

\* the records: non-empty mappings over the fields a and b, in either order
CsvRecords ==
    {DictVal(<<Pair("a", v)>>) : v \in CsvValues}
        \cup {DictVal(<<Pair("b", v)>>) : v \in CsvValues}
        \cup {DictVal(<<Pair("a", v), Pair("b", w)>>) : v \in CsvValues, w \in {StrVal(<<"x">>)}}
        \cup {DictVal(<<Pair("b", v), Pair("a", w)>>) : v \in {IntVal(1, <<"1">>)}, w \in CsvValues}

\* str(value) as characters
StrChars(v) == v.s

\* separator.join(texts)
RECURSIVE Join(_, _)
Join(texts, separator) ==
    IF texts = <<>> THEN <<>>
    ELSE IF Len(texts) = 1 THEN Head(texts)
    ELSE Head(texts) \o <<separator>> \o Join(Tail(texts), separator)

\* list(data[0].keys())
Headers(data) == [n \in DOMAIN data[1].items |-> data[1].items[n].k]

\* [str(record.get(h, "")) for h in headers]
RowValues(record, headers) ==
    [n \in DOMAIN headers |-> StrChars(GetOr(record, headers[n], StrVal(<<>>)))]

\* S3Writer._to_csv_simple, before .encode('utf-8')
ToCsvSimple(data) ==
    IF data = <<>> THEN <<>>
    ELSE LET headers == Headers(data)
             lines == <<Join([n \in DOMAIN headers |-> <<headers[n]>>], ",")>>
                        \o [n \in DOMAIN data |-> Join(RowValues(data[n], headers), ",")]
         IN  Join(lines, "\n")

\* an S3Writer and a list of records, _to_csv_simple not called yet
CsvInit ==
    /\ HandlerAtRest
    /\ proc = NoCall
    /\ pager = NoCall
    /\ client = NoCall
    /\ retry = NoCall
    /\ writer \in {[phase |-> "call", data |-> d, body |-> <<>>] :
                     d \in SeqsUpTo(CsvRecords, MaxRows)}

\* S3Writer._to_csv_simple(data)
ToCsvCall ==
    /\ writer.phase = "call"
    /\ writer' = [writer EXCEPT !.phase = "returned", !.body = ToCsvSimple(writer.data)]
    /\ UNCHANGED <<handler, proc, pager, client, retry>>

CsvNext == ToCsvCall

CsvSpec == CsvInit /\ [][CsvNext]_vars

\* text.split(separator): the pieces of a text between its separators
RECURSIVE Split(_, _)
Split(text, separator) ==
    IF \A n \in DOMAIN text : text[n] # separator THEN <<text>>
    ELSE LET at == CHOOSE n \in DOMAIN text :
                      /\ text[n] = separator
                      /\ \A m \in 1..(n - 1) : text[m] # separator
         IN  <<SubSeq(text, 1, at - 1)>> \o Split(SubSeq(text, at + 1, Len(text)), separator)

\* the rows of a csv body, each as its list of values
Rows(body) == [n \in DOMAIN Split(body, "\n") |-> Split(Split(body, "\n")[n], ",")]

(***************************************************************************)
(* C24: in the csv encoding the header row is the field list of the first  *)
(* record, and the row of every record has exactly as many values as the   *)
(* header, the i-th being the record's value for the i-th header field,    *)
(* or the empty string when the record lacks the field; fields that        *)
(* appear only in later records are not emitted.                           *)
(***************************************************************************)
C24_RowsAlignedToHeader ==
    writer.phase = "returned" /\ writer.data # <<>> =>
        LET headers == Headers(writer.data)
            rows == Rows(writer.body)
        IN  /\ Len(rows) = Len(writer.data) + 1
            /\ rows[1] = [n \in DOMAIN headers |-> <<headers[n]>>]
            /\ \A r \in DOMAIN writer.data :
                  /\ Len(rows[r + 1]) = Len(headers)
                  /\ \A n \in DOMAIN headers :
                        rows[r + 1][n] =
                            IF HasKey(writer.data[r], headers[n])
                            THEN StrChars(Get(writer.data[r], headers[n]))
                            ELSE <<>>

(***************************************************************************)
(* DataProcessor.add_metadata on JSON values, for any caller metadata.     *)
(***************************************************************************)
\* the metadata a caller can pass: any of its keys may be one add_metadata
\* computes itself
CallerMetadata ==
    {DictVal(a \o b \o c \o d) :
        a \in Optional("source", {StrVal("test")}),
        b \in Optional("record_count", {IntVal(99, "99"), Null}),
        c \in Optional("schema_version", {StrVal("0.9")}),
        d \in Optional("processing_timestamp", {StrVal("2020-01-01")})}

\* the keys add_metadata computes
ComputedKeys == {"record_count", "processing_timestamp", "schema_version"}

\* mutant: the caller's pairs are spread last
MutAddMetadataValue(data, metadata) ==
    DictUpdate(DictVal(<<>>),
        <<Pair("record_count", IntVal(Len(data), ToString(Len(data)))),
          Pair("processing_timestamp", NowIso),
          Pair("schema_version", StrVal("1.0.0"))>>
        \o metadata.items)

\* the dict display of add_metadata: **metadata, then the computed pairs
AddMetadataValue(data, metadata) ==
    DictUpdate(DictVal(<<>>),
        metadata.items
        \o <<Pair("record_count", IntVal(Len(data), ToString(Len(data)))),
             Pair("processing_timestamp", NowIso),
             Pair("schema_version", StrVal("1.0.0"))>>)

\* a DataProcessor, processed data and caller metadata, add_metadata not
\* called yet
MetaInit ==
    /\ HandlerAtRest
    /\ pager = NoCall
    /\ client = NoCall
    /\ writer = NoCall
    /\ retry = NoCall
    /\ proc \in {[phase |-> "call", data |-> d, metadata |-> m, result |-> Null] :
                    d \in SeqsUpTo({StandardizedRecord(Rec)}, MaxBatch),
                    m \in CallerMetadata}

\* DataProcessor.add_metadata(data, metadata)
AddMetadataCall ==
    /\ proc.phase = "call"
    /\ proc' = [proc EXCEPT !.phase = "returned",
                            !.result = AddMetadataValue(proc.data, proc.metadata)]
    /\ UNCHANGED <<handler, pager, client, writer, retry>>

MetaNext == AddMetadataCall

MetaSpec == MetaInit /\ [][MetaNext]_vars

DateOf(day) ==
    IF day = 0 THEN [year |-> 2024, month |-> 12, day |-> 31]
    ELSE [year |-> 2025, month |-> 1, day |-> day]

DigitChars == <<"0", "1", "2", "3", "4", "5", "6", "7", "8", "9">>

\* str(n) of a natural number, as characters
RECURSIVE Digits(_)
Digits(n) ==
    IF n < 10 THEN <<DigitChars[n + 1]>>
    ELSE Digits(n \div 10) \o <<DigitChars[(n % 10) + 1]>>

\* mutant: no padding
MutPad2(n) == Digits(n)

\* f"{n:02d}" and strftime's %m, %d, %H, %M, %S
Pad2(n) == IF n < 10 THEN <<"0">> \o Digits(n) ELSE Digits(n)

\* get_partition_path: f"year={now.year}/month={now.month:02d}/day={now.day:02d}"
PartitionText(day) ==
    <<"year=">> \o Digits(DateOf(day).year)
        \o <<"/month=">> \o Pad2(DateOf(day).month)
        \o <<"/day=">> \o Pad2(DateOf(day).day)

\* strftime("%Y%m%d_%H%M%S") of a second of the model's clock
TimestampText(second) ==
    LET date == DateOf(second \div SecondsPerDay)
        of_day == second % SecondsPerDay
    IN  Digits(date.year) \o Pad2(date.month) \o Pad2(date.day) \o <<"_">>
            \o Pad2(of_day \div 3600) \o Pad2((of_day \div 60) % 60) \o Pad2(of_day % 60)

\* prefix=f"raw-data/{partition_path}"
PrefixText(partition_path) == <<"raw-data/">> \o PartitionText(partition_path)

\* f"{prefix}/data_{timestamp}.{ext}", and f"{data_key}.metadata.json"
KeyText(key) ==
    PrefixText(key.prefix) \o <<"/data_">> \o TimestampText(key.ts) \o <<".", key.ext>>
        \o (IF key.suffix = "" THEN <<>> ELSE <<key.suffix>>)

\* the number a text of digits stands for, -1 when it is not one
RECURSIVE NumberOf(_)
NumberOf(chars) ==
    IF chars = <<>> THEN 0
    ELSE LET last == chars[Len(chars)]
             rest == NumberOf(SubSeq(chars, 1, Len(chars) - 1))
         IN  IF rest = -1 \/ \A d \in DOMAIN DigitChars : DigitChars[d] # last
             THEN -1
             ELSE 10 * rest + (CHOOSE d \in DOMAIN DigitChars : DigitChars[d] = last) - 1

\* the data objects an invocation has put
DataPuts(i) == {o \in SuccessfulPuts(i) : o.key.suffix = ""}

(***************************************************************************)
(* C26: every data object written by lambda_handler has a key of the form  *)
(* raw-data/year=YYYY/month=MM/day=DD/data_<timestamp>.<ext>, the three    *)
(* components being the zero-padded year, month and day of the UTC date    *)
(* at a clock reading of the invocation, and write_data returns a key that *)
(* starts with the prefix it was given followed by /data_.                 *)
(***************************************************************************)
C26_KeyHasPartitionedForm ==
    \A i \in Invocations :
        /\ \A o \in DataPuts(i) :
              LET text == KeyText(o.key)
              IN  /\ Len(text) = 30
                  /\ text[1] = "raw-data/"
                  /\ text[2] = "year="
                  /\ text[7] = "/month="
                  /\ text[10] = "/day="
                  /\ text[13] = "/data_"
                  /\ text[29] = "."
                  /\ text[30] \in {"json", "csv"}
                  /\ \E now \in 0..clock :
                        LET date == DateOf(PartitionPath(now))
                        IN  /\ NumberOf(SubSeq(text, 3, 6)) = date.year
                            /\ NumberOf(SubSeq(text, 8, 9)) = date.month
                            /\ NumberOf(SubSeq(text, 11, 12)) = date.day
        /\ pc[i] = "done" /\ response[i].statusCode = 200 =>
              IsPrefix(PrefixText(loc[i].partition_path) \o <<"/data_">>,
                       KeyText(loc[i].s3_key))

C26_Witness ==
    \E i \in Invocations :
        /\ pc[i] = "done"
        /\ response[i].statusCode = 200
        /\ \E o \in DataPuts(i) :
              SubSeq(KeyText(o.key), 1, 13)
                  = <<"raw-data/", "year=", "2", "0", "2", "5", "/month=", "0", "1",
                      "/day=", "0", "1", "/data_">>

\* the sidecar objects in the bucket
Sidecars == {o \in store : o.key.suffix = ".metadata.json"}

(***************************************************************************)
(* C27: the sidecar put is attempted only after the data put of the same   *)
(* write_data call has succeeded, and it targets the key                   *)
(* <data key>.metadata.json: in every reachable store state each sidecar   *)
(* object has its data object present, its data_file is the data key and   *)
(* its record_count is the number of records in the data object.  When the *)
(* data put fails, no sidecar put is attempted and write_data raises.      *)
(***************************************************************************)
C27_SidecarDescribesItsDataObject ==
    /\ \A i \in Invocations :
          /\ \A n \in DOMAIN puts[i] :
                puts[i][n].obj.key.suffix = ".metadata.json" =>
                    /\ n = 2
                    /\ puts[i][1].ok
                    /\ puts[i][1].obj.key.suffix = ""
                    /\ puts[i][n].obj.key = MetadataKey(puts[i][1].obj.key)
          /\ (puts[i] # <<>> /\ ~puts[i][1].ok) =>
                /\ Len(puts[i]) = 1
                /\ pc[i] \in {"done", "terminated"}
                /\ pc[i] = "done" => response[i].statusCode = 500
    /\ \A s \in Sidecars :
          \E d \in store :
              /\ d.key = s.data_file
              /\ s.key = MetadataKey(d.key)
              /\ s.record_count = d.record_count

(***************************************************************************)
(* RetryHandler.with_retry: one call of the wrapper around a function      *)
(* that fails or succeeds from one invocation to the next.                 *)
(***************************************************************************)
\* largest max_attempts given to with_retry
MaxAttempts == 3

\* max_attempts: any integer
AttemptArgs == (-1)..MaxAttempts

\* backoff_base
BackoffBases == {2, 3}

\* max_delay
MaxDelays == {1, 3, 60}

\* what the wrapped function returns when it succeeds
FuncResults == {"r1", "r2"}

Min(a, b) == IF a <= b THEN a ELSE b

\* attempt = 0, delay = 1.0, before the first test of the while loop
RetryInit ==
    /\ HandlerAtRest
    /\ proc = NoCall
    /\ pager = NoCall
    /\ client = NoCall
    /\ writer = NoCall
    /\ retry \in {[phase |-> "loop", max_attempts |-> m, backoff_base |-> b,
                   max_delay |-> d, attempt |-> 0, delay |-> 1, invocations |-> 0,
                   succeeded |-> FALSE, sleeps |-> <<>>, result |-> "None"] :
                     m \in AttemptArgs, b \in BackoffBases, d \in MaxDelays}

\* `while attempt < max_attempts` is false: the wrapper body ends and the
\* wrapper returns None
LoopFallsThrough ==
    /\ retry.phase = "loop"
    /\ ~(retry.attempt < retry.max_attempts)
    /\ retry' = [retry EXCEPT !.phase = "returned", !.result = "None"]
    /\ UNCHANGED <<handler, proc, pager, client, writer>>

\* a pass whose func call returns: `return func(*args, **kwargs)`
FuncReturns ==
    /\ retry.phase = "loop"
    /\ retry.attempt < retry.max_attempts
    /\ \E r \in FuncResults :
          retry' = [retry EXCEPT !.phase = "returned", !.result = r,
                                 !.succeeded = TRUE, !.invocations = @ + 1]
    /\ UNCHANGED <<handler, proc, pager, client, writer>>

\* a pass whose func call raises: count it, re-raise on the last attempt,
\* else sleep(delay) and raise the delay
FuncRaises ==
    /\ retry.phase = "loop"
    /\ retry.attempt < retry.max_attempts
    /\ IF retry.attempt + 1 >= retry.max_attempts
       THEN retry' = [retry EXCEPT !.phase = "raised", !.attempt = @ + 1,
                                   !.invocations = @ + 1]
       ELSE retry' = [retry EXCEPT
                         !.attempt = @ + 1,
                         !.invocations = @ + 1,
                         !.sleeps = Append(@, retry.delay),
                         !.delay = Min(retry.delay * retry.backoff_base, retry.max_delay)]
    /\ UNCHANGED <<handler, proc, pager, client, writer>>

RetryNext == LoopFallsThrough \/ FuncReturns \/ FuncRaises

RetrySpec == RetryInit /\ [][RetryNext]_vars

(***************************************************************************)
(* C28: a function wrapped by with_retry(max_attempts, backoff_base,       *)
(* max_delay) is invoked at most max_attempts times; the wrapper returns   *)
(* the result of the first successful invocation without further calls,    *)
(* waits between attempts a delay that starts at 1 and is multiplied by    *)
(* backoff_base up to max_delay, and re-raises the last fault when all     *)
(* attempts fail.  It never returns normally without the wrapped function  *)
(* having succeeded, for every value of max_attempts.                      *)
(***************************************************************************)
C28_ReturnsOnlyAfterSuccess ==
    /\ retry.invocations <= (IF retry.max_attempts > 0 THEN retry.max_attempts ELSE 0)
    /\ retry.phase = "returned" =>
          /\ retry.succeeded
          /\ retry.result \in FuncResults
    /\ retry.phase = "raised" =>
          /\ ~retry.succeeded
          /\ retry.invocations = retry.max_attempts
    /\ Len(retry.sleeps) = (IF retry.succeeded THEN retry.invocations - 1
                            ELSE IF retry.phase = "raised" THEN retry.invocations - 1
                            ELSE retry.invocations)
    /\ \A n \in DOMAIN retry.sleeps :
          retry.sleeps[n] =
              IF n = 1 THEN 1
              ELSE Min(retry.sleeps[n - 1] * retry.backoff_base, retry.max_delay)

(***************************************************************************)
(* C29: the result of lambda_handler matches its storage effect: when it   *)
(* returns 204 or 500 (configuration, fetch or data-put fault) the         *)
(* invocation has persisted no data object; when it returns 200 it has     *)
(* persisted exactly one data object, at the key reported in s3_location,  *)
(* and records_processed is the number of records of that object, which    *)
(* is 0 when the processor skipped every fetched record: the handler then  *)
(* still writes the empty batch and returns 200, not 204.                  *)
(***************************************************************************)
C29_ResultMatchesStorageEffect ==
    \A i \in Invocations :
        pc[i] = "done" =>
            /\ response[i].statusCode \in {200, 204, 500}
            /\ response[i].statusCode \in {204, 500} => DataPuts(i) = {}
            /\ response[i].statusCode = 200 =>
                  /\ Cardinality(DataPuts(i)) = 1
                  /\ \A o \in DataPuts(i) :
                        /\ o.key = response[i].s3_location
                        /\ o.record_count = response[i].records_processed
                        /\ o.record_count = Len(loc[i].processed_data)
            /\ (loc[i].raw_data # NotFetched /\ Truthy(loc[i].raw_data)
                  /\ HasLen(loc[i].raw_data) /\ loc[i].processed_data = <<>>
                  /\ puts[i] # <<>> /\ puts[i][1].ok)
                  => response[i].statusCode = 200

C29_Witness ==
    \E i \in Invocations :
        /\ pc[i] = "done"
        /\ response[i].statusCode = 200
        /\ response[i].records_processed = 0
        /\ Len(loc[i].raw_data.items) = 1
        /\ \E o \in DataPuts(i) : o.record_count = 0 /\ o.key = response[i].s3_location

(***************************************************************************)
(* C30: for every data object written by lambda_handler, the date in its   *)
(* partition path (year=/month=/day=) is the same UTC date as the date     *)
(* part of the timestamp in its file name, although the handler reads the  *)
(* clock for the path and the writer reads it again for the file name,     *)
(* with the clock free to advance across midnight between the two reads.   *)
(***************************************************************************)
C30_PathDateIsFileNameDate ==
    \A i \in Invocations :
        \A o \in DataPuts(i) :
            LET text == KeyText(o.key)
            IN  SubSeq(text, 3, 6) \o SubSeq(text, 8, 9) \o SubSeq(text, 11, 12)
                    = SubSeq(text, 14, 21)

====
